---------------------------- MODULE Spec2Model ----------------------------
(***************************************************************************)
(* A model of linux-status (src/src/app.py): the Task / TaskList / Command *)
(* protocol on top of the shared ThreadPoolExecutor, the construction of   *)
(* the Status task tree (SystemStatus, UserStatusList, DockerStatus) and   *)
(* the loginctl parsing of systemd_users().                                *)
(*                                                                         *)
(* Python values are modelled as follows.                                  *)
(*   dict (insertion ordered)  a sequence of [name, task] entries          *)
(*   str that the code scans   a sequence of one-character strings         *)
(*   str that the code passes  a TLA+ string                               *)
(*   an object's identity      its cid field                               *)
(*   a raised exception        a record [ok |-> FALSE, err |-> class, ...] *)
(***************************************************************************)
EXTENDS Integers, Sequences, FiniteSets, TLC

VARIABLES
    mode,      \* which entry point drives the model: "status", "task", "parse"
    futs,      \* the futures the pool has handed out, in submission order
    queue,     \* the pool's work queue: indices into futs, FIFO
    taskOf,    \* Command.task: cid -> index into futs (absent before run())
    root,      \* the TaskList being built / completed
    pc,        \* position of the calling thread
    outcome,   \* what the entry point returned or raised
    env0,      \* the caller's identity: [euid, uid]
    probe,     \* what the construction-time probes saw
    users,     \* systemd_users(): the generator's state
    obs        \* the harness's record of the last Task call

vars == <<mode, futs, queue, taskOf, root, pc, outcome, env0, probe, users, obs>>

----------------------------------------------------------------------------
(* Bounds of the model *)

PoolSize == 2
MaxFailures == 1
MaxChildren == 2
MaxRuns == 1

----------------------------------------------------------------------------
(* Generic helpers *)

RECURSIVE StrOf(_)
\* ''.join(cs): the Python str a sequence of characters stands for
StrOf(cs) == IF cs = <<>> THEN "" ELSE Head(cs) \o StrOf(Tail(cs))

RECURSIVE JoinWith(_, _)
\* sep.join(words)
JoinWith(words, sep) ==
    IF words = <<>> THEN ""
    ELSE IF Len(words) = 1 THEN words[1]
    ELSE words[1] \o sep \o JoinWith(Tail(words), sep)

Range(s) == { s[i] : i \in DOMAIN s }

Ok(v) == [ok |-> TRUE, blocked |-> FALSE, val |-> v]
Raise(cls, msg) == [ok |-> FALSE, blocked |-> FALSE, err |-> cls, msg |-> msg]
Blocked == [ok |-> FALSE, blocked |-> TRUE]

----------------------------------------------------------------------------
(* dict *)

DictKeys(d) == [i \in DOMAIN d |-> d[i].name]

DictHas(d, k) == \E i \in DOMAIN d : d[i].name = k

\* d[k] = v: a new key goes last, an existing key keeps its place
DictSet(d, k, v) ==
    IF DictHas(d, k)
    THEN [i \in DOMAIN d |-> IF d[i].name = k THEN [name |-> k, task |-> v] ELSE d[i]]
    ELSE Append(d, [name |-> k, task |-> v])

DictGet(d, k) == d[CHOOSE i \in DOMAIN d : d[i].name = k].task

----------------------------------------------------------------------------
(* split_by *)

RECURSIVE split_by_from(_, _, _, _)
split_by_from(xs, sep, i, group) ==
    IF i > Len(xs) THEN <<group>>
    ELSE IF xs[i] = sep
         THEN <<group>> \o split_by_from(xs, sep, i + 1, <<>>)
         ELSE split_by_from(xs, sep, i + 1, Append(group, xs[i]))

\* the groups of xs between the occurrences of sep, the last one included
split_by(xs, sep) == split_by_from(xs, sep, 1, <<>>)

\* str.splitlines(): the lines between "\n", no empty last line after a
\* final "\n"
splitlines(text) ==
    IF text = <<>> THEN <<>>
    ELSE IF text[Len(text)] = "\n"
         THEN split_by(SubSeq(text, 1, Len(text) - 1), "\n")
         ELSE split_by(text, "\n")

----------------------------------------------------------------------------
(* Command and its subclasses: the command line and environment each builds *)

NoneEnv == [None |-> "None"]

\* os.environ of the serving process
os_environ ==
    [PATH |-> "/usr/bin", SYSTEMD_COLORS |-> "yes",
     XDG_RUNTIME_DIR |-> "/run/user/0",
     DBUS_SESSION_BUS_ADDRESS |-> "unix:path=/run/user/0/bus"]

EnvSet(env, k, v) == [x \in DOMAIN env \cup {k} |-> IF x = k THEN v ELSE env[x]]

Command(cid, args) ==
    [kind |-> "Command", cid |-> cid, args |-> args, env |-> NoneEnv]

make_env == EnvSet(EnvSet(os_environ, "SYSTEMD_PAGER", ""), "SYSTEMD_COLORS", "no")

Systemd(cid, args) == [Command(cid, args) EXCEPT !.env = make_env]

\* the words the program puts on an inner command line; none needs quoting
SafeWords ==
    {"systemctl", "journalctl", "--user", "--system", "--full", "status",
     "list-units", "--failed", "list-timers", "--all", "-b", "--lines=20"}

shlex_quote(w) == IF w \in SafeWords THEN w ELSE "'" \o w \o "'"

shlex_join(words) == JoinWith([i \in DOMAIN words |-> shlex_quote(words[i])], " ")

\* os.path.join(runtime_dir, 'bus')
path_join_bus(dir) == dir \o "/bus"

fix_su_env(user, env) ==
    EnvSet(EnvSet(env, "XDG_RUNTIME_DIR", user.runtime_dir),
           "DBUS_SESSION_BUS_ADDRESS", "unix:path=" \o path_join_bus(user.runtime_dir))

Systemd_su(user, cmd) ==
    [Systemd(cmd.cid, <<"su", "-c", shlex_join(cmd.args), user.name>>)
        EXCEPT !.env = fix_su_env(user, cmd.env)]

Ctl(cid, executable, args) == Systemd(cid, <<executable>> \o args \o <<"--full">>)

Systemctl_system(cid, args) == Ctl(cid, "systemctl", <<"--system">> \o args)
Systemctl_user(cid, args) == Ctl(cid, "systemctl", <<"--user">> \o args)
Journalctl_system(cid, args) == Ctl(cid, "journalctl", <<"--system">> \o args)
Journalctl_user(cid, args) == Ctl(cid, "journalctl", <<"--user">> \o args)

Loginctl(cid, args) == Systemd(cid, <<"loginctl">> \o args \o <<"--full">>)

Docker(cid, args) == Command(cid, <<"docker">> \o args)

DockerVersion(cid) == Docker(cid, <<"version">>)

DockerPs_quiet(cid, args) == Docker(cid, <<"ps", "--quiet">> \o args)

FORMAT == "{{printf \"%s%c\" (json .) 0}}"

DockerInspect(cid, args) == Docker(cid, <<"inspect", "--format=" \o FORMAT>> \o args)

\* DockerStatus.__init__, given what DockerPs.get_all_ids() returned
DockerStatus(cid, containers) ==
    [kind |-> "DockerStatus", cid |-> cid,
     args |-> DockerInspect(cid, containers).args,
     env |-> DockerInspect(cid, containers).env,
     containers |-> containers]

Hostname(cid) == [kind |-> "Hostname", cid |-> cid]

TaskList(cid, tasks) == [kind |-> "TaskList", cid |-> cid, tasks |-> tasks]

\* the stub command of the harness: a plain Command
Stub(cid) == Command(cid, <<"stub">>)

InstanceFacets == <<"overview", "failed", "timers", "journal">>

\* the systemctl / journalctl arguments of InstanceStatus.__init__: Ctl.system,
\* Ctl.user, or the lambdas of UserStatus.su
Factory_system == [scope |-> "--system", su |-> FALSE]
Factory_user == [scope |-> "--user", su |-> FALSE]
Factory_su(user) == [scope |-> "--user", su |-> TRUE, user |-> user]

call_systemctl(f, cid, args) ==
    IF f.su THEN Systemd_su(f.user, Systemctl_user(cid, args))
    ELSE IF f.scope = "--system" THEN Systemctl_system(cid, args)
    ELSE Systemctl_user(cid, args)

call_journalctl(f, cid, args) ==
    IF f.su THEN Systemd_su(f.user, Journalctl_user(cid, args))
    ELSE IF f.scope = "--system" THEN Journalctl_system(cid, args)
    ELSE Journalctl_user(cid, args)

InstanceStatus(cid, f) ==
    TaskList(cid,
        << [name |-> "overview", task |-> call_systemctl(f, cid \o ".overview", <<"status">>)],
           [name |-> "failed",
            task |-> call_systemctl(f, cid \o ".failed", <<"list-units", "--failed">>)],
           [name |-> "timers",
            task |-> call_systemctl(f, cid \o ".timers", <<"list-timers", "--all">>)],
           [name |-> "journal",
            task |-> call_journalctl(f, cid \o ".journal", <<"-b", "--lines=20">>)] >>)

UserStatus(cid) == InstanceStatus(cid, Factory_user)

UserStatus_su(cid, user) == InstanceStatus(cid, Factory_su(user))

----------------------------------------------------------------------------
(* run_do and the pool *)

\* the commands the constructors run with now(); all others are leaves of a tree
ProbeCids == {"DockerVersion", "DockerPs", "list-users", "show-user", "is-active"}

\* how subprocess.run can end: exit code 0, another exit code, or no process
\* at all (below). Only the first docker command of a request can find docker
\* missing: once `docker version` has run, the executable is there.
Hows(args) ==
    {"zero", "nonzero"} \cup (IF args = <<"docker", "version">> THEN {"nospawn"} ELSE {})

\* run_do: the value returned or the exception raised, given how the process
\* ended and the text it wrote
run_do(how, stdout) ==
    IF how = "nospawn" THEN Raise("FileNotFoundError", "")
    ELSE IF how = "nonzero"
         THEN Raise("RuntimeError", "Command's output was this:\n" \o StrOf(stdout))
         ELSE Ok(stdout)

\* pool.submit(run_do, *args, env=env): a queued future
NewFuture(c) ==
    [by |-> c.cid, args |-> c.args, env |-> c.env, st |-> "queued", res |-> Blocked,
     stdout |-> <<>>]

FnSet(f, k, v) == [x \in DOMAIN f \cup {k} |-> IF x = k THEN v ELSE f[x]]

\* the state run() works on
PoolState == [futs |-> futs, queue |-> queue, taskOf |-> taskOf]

\* a run() that runs the command itself and comes back when it has ended
Command_run_sync(S, c) ==
    LET n == Len(S.futs) + 1
        out == <<JoinWith(c.args, " ")>>
    IN  [futs |-> Append(S.futs, [NewFuture(c) EXCEPT !.st = "done", !.res = Ok(out),
                                                      !.stdout = out]),
         queue |-> S.queue,
         taskOf |-> FnSet(S.taskOf, c.cid, n)]

\* a run() whose work item never reaches a worker
Command_run_dropped(S, c) ==
    LET n == Len(S.futs) + 1
    IN  [futs |-> Append(S.futs, NewFuture(c)),
         queue |-> S.queue,
         taskOf |-> FnSet(S.taskOf, c.cid, n)]

\* Command.run: submit, and keep the future in self.task
Command_run(S, c) ==
    LET n == Len(S.futs) + 1
    IN  [futs |-> Append(S.futs, NewFuture(c)),
         queue |-> Append(S.queue, n),
         taskOf |-> FnSet(S.taskOf, c.cid, n)]

\* a run() that submits `docker inspect` whatever the listing
DockerStatus_run_always(S, d) == Command_run(S, d)

\* DockerStatus.run
DockerStatus_run(S, d) == IF d.containers = <<>> THEN S ELSE Command_run(S, d)

RECURSIVE Task_run(_, _)
RECURSIVE TaskList_run(_, _, _)
\* a run() that calls run() of every child twice
TaskList_run_twice(S, tasks, i) ==
    IF i > Len(tasks) THEN S
    ELSE TaskList_run(Task_run(Task_run(S, tasks[i].task), tasks[i].task), tasks, i + 1)

\* TaskList.run: run() of every child, in the dict's order
TaskList_run(S, tasks, i) ==
    IF i > Len(tasks) THEN S
    ELSE TaskList_run(Task_run(S, tasks[i].task), tasks, i + 1)

\* run() by the kind of the task
Task_run(S, t) ==
    CASE t.kind = "Command" -> Command_run(S, t)
      [] t.kind = "DockerStatus" -> DockerStatus_run(S, t)
      [] t.kind = "Hostname" -> S
      [] t.kind = "TaskList" -> TaskList_run(S, t.tasks, 1)

Running == { i \in DOMAIN futs : futs[i].st = "running" }

FailedLeaves ==
    { i \in DOMAIN futs : futs[i].st = "done" /\ ~futs[i].res.ok
                          /\ futs[i].by \notin ProbeCids }

----------------------------------------------------------------------------
(* result() *)

\* Future.result()
Future_result(f) == IF f.st # "done" THEN Blocked ELSE f.res

\* a result() that answers before run(): an empty text instead of the missing
\* self.task
Command_result_lenient(c) ==
    IF c.cid \notin DOMAIN taskOf
    THEN Ok(<<>>)
    ELSE Future_result(futs[taskOf[c.cid]])

\* Command.result: self.task.result()
Command_result(c) ==
    IF c.cid \notin DOMAIN taskOf
    THEN Raise("AttributeError", "task")
    ELSE Future_result(futs[taskOf[c.cid]])

IsSpace(tok) == tok \in {" ", "\n", "\t"}

RECURSIVE lstrip(_)
lstrip(text) ==
    IF text # <<>> /\ IsSpace(Head(text)) THEN lstrip(Tail(text)) ELSE text

RECURSIVE rstrip(_)
rstrip(text) ==
    IF text # <<>> /\ IsSpace(text[Len(text)])
    THEN rstrip(SubSeq(text, 1, Len(text) - 1)) ELSE text

strip(text) == rstrip(lstrip(text))

\* the JSON documents `docker inspect` prints in this model, by container id
JsonDoc(id) ==
    [Name |-> <<"/", id>>,
     State |-> [ExitCode |-> 0, Status |-> "running", StartedAt |-> "t0"],
     Config |-> [Image |-> "img-" \o id]]

ContainerIds == {"c1", "c2", "c3"}

\* JSON documents of another shape: a Name without the leading /, no Name
OddDocs == {"{noslash}", "{noname}"}

OddDoc(tok) ==
    IF tok = "{noslash}" THEN [JsonDoc("c1") EXCEPT !.Name = <<"c1">>]
    ELSE [State |-> JsonDoc("c1").State, Config |-> JsonDoc("c1").Config]

\* json.loads of one chunk
json_loads(chunk) ==
    LET body == strip(chunk)
    IN  IF Len(body) = 1 /\ \E id \in ContainerIds : body[1] = "{" \o id \o "}"
        THEN Ok(JsonDoc(CHOOSE id \in ContainerIds : body[1] = "{" \o id \o "}"))
        ELSE IF Len(body) = 1 /\ body[1] \in OddDocs THEN Ok(OddDoc(body[1]))
        ELSE Raise("JSONDecodeError", StrOf(chunk))

\* DockerStatus.filter_info
filter_info(info) ==
    IF "Name" \notin DOMAIN info THEN Raise("KeyError", "Name")
    ELSE IF info.Name = <<>> THEN Raise("IndexError", "Name")
    ELSE IF info.Name[1] # "/" THEN Raise("AssertionError", "")
    ELSE Ok([exit_code |-> info.State.ExitCode,
             health |-> IF "Health" \in DOMAIN info.State
                        THEN info.State.Health.Status ELSE "None",
             image |-> info.Config.Image,
             name |-> StrOf(Tail(info.Name)),
             started_at |-> info.State.StartedAt,
             status |-> info.State.Status])

RECURSIVE loads_all(_, _)
\* [json.loads(info) for info in result if info.strip()]
loads_all(chunks, i) ==
    IF i > Len(chunks) THEN Ok(<<>>)
    ELSE IF strip(chunks[i]) = <<>> THEN loads_all(chunks, i + 1)
    ELSE LET doc == json_loads(chunks[i])
         IN  IF ~doc.ok THEN doc
             ELSE LET rest == loads_all(chunks, i + 1)
                  IN  IF ~rest.ok THEN rest ELSE Ok(<<doc.val>> \o rest.val)

RECURSIVE filter_all(_, _)
\* [DockerStatus.filter_info(info) for info in result]
filter_all(docs, i) ==
    IF i > Len(docs) THEN Ok(<<>>)
    ELSE LET rec == filter_info(docs[i])
         IN  IF ~rec.ok THEN rec
             ELSE LET rest == filter_all(docs, i + 1)
                  IN  IF ~rest.ok THEN rest ELSE Ok(<<rec.val>> \o rest.val)

inspect_records(text) ==
    LET docs == loads_all(split_by(text, "NUL"), 1)
    IN  IF ~docs.ok THEN docs ELSE filter_all(docs.val, 1)

\* DockerStatus.result
DockerStatus_result(d) ==
    IF d.containers = <<>> THEN Ok(<<>>)
    ELSE LET r == Command_result(d)
         IN  IF ~r.ok THEN r ELSE inspect_records(r.val)

gethostname == <<"host">>

\* Hostname.result
Hostname_result(h) == Ok(gethostname)

RECURSIVE Task_result(_)
RECURSIVE TaskList_result(_, _)
\* a result() that lists the children last to first
TaskList_result_reversed(tasks, i) ==
    IF i > Len(tasks) THEN Ok(<<>>)
    ELSE LET r == Task_result(tasks[i].task)
         IN  IF ~r.ok THEN r
             ELSE LET rest == TaskList_result(tasks, i + 1)
                  IN  IF ~rest.ok THEN rest
                      ELSE Ok(rest.val \o <<[name |-> tasks[i].name, val |-> r.val]>>)

\* a result() that leaves out the children whose result() raises
TaskList_result_partial(tasks, i) ==
    IF i > Len(tasks) THEN Ok(<<>>)
    ELSE LET r == Task_result(tasks[i].task)
         IN  IF r.blocked THEN r
             ELSE LET rest == TaskList_result(tasks, i + 1)
                  IN  IF ~rest.ok THEN rest
                      ELSE IF ~r.ok THEN rest
                      ELSE Ok(<<[name |-> tasks[i].name, val |-> r.val]>> \o rest.val)

\* TaskList.result: the dict comprehension, child by child; the first child
\* whose result() raises (or never returns) ends it
TaskList_result(tasks, i) ==
    IF i > Len(tasks) THEN Ok(<<>>)
    ELSE LET r == Task_result(tasks[i].task)
         IN  IF ~r.ok THEN r
             ELSE LET rest == TaskList_result(tasks, i + 1)
                  IN  IF ~rest.ok THEN rest
                      ELSE Ok(<<[name |-> tasks[i].name, val |-> r.val]>> \o rest.val)

\* result() by the kind of the task
Task_result(t) ==
    CASE t.kind = "Command" -> Command_result(t)
      [] t.kind = "DockerStatus" -> DockerStatus_result(t)
      [] t.kind = "Hostname" -> Hostname_result(t)
      [] t.kind = "TaskList" -> TaskList_result(t.tasks, 1)

----------------------------------------------------------------------------
(* The external tools: what a command can print *)

\* `docker inspect --format=FORMAT ids`: per container its JSON document, a
\* NUL and the newline docker adds
RECURSIVE InspectOutput(_)
InspectOutput(ids) ==
    IF ids = <<>> THEN <<>>
    ELSE <<"{" \o Head(ids) \o "}", "NUL", "\n">> \o InspectOutput(Tail(ids))

\* `docker ps --quiet --all`: one container id per line
PsOutputs == { <<>>, <<"c1", "\n">>, <<"c1", "\n", "c2", "\n">> }

ShowBlock(p) == p.uid \o <<"\n", p.name, "\n", p.runtime_dir, "\n">>

RECURSIVE ShowText(_)
\* `loginctl show-user -p UID -p Name -p RuntimePath --value`: a block per
\* user, a blank line between two blocks
ShowText(ps) ==
    IF ps = <<>> THEN <<>>
    ELSE IF Len(ps) = 1 THEN ShowBlock(ps[1])
    ELSE ShowBlock(ps[1]) \o <<"\n">> \o ShowText(Tail(ps))

Alice == [uid |-> <<"1", "0", "0", "1">>, name |-> "alice",
          runtime_dir |-> "/run/user/1001"]
Bob == [uid |-> <<"1", "0", "0", "2">>, name |-> "bob",
        runtime_dir |-> "/run/user/1002"]
\* a second account that goes by the name alice
Alice2 == [uid |-> <<"1", "0", "0", "3">>, name |-> "alice",
           runtime_dir |-> "/run/user/1003"]

ListLine(p) == p.uid \o <<" ", p.name, "\n">>

RECURSIVE ListText(_)
\* `loginctl list-users --no-legend`: a line "UID NAME" per user
ListText(ps) == IF ps = <<>> THEN <<>> ELSE ListLine(Head(ps)) \o ListText(Tail(ps))

\* the logged-in users of the hosts of the status model
LoggedIn == { <<>>, <<Alice>>, <<Alice, Bob>>, <<Alice, Alice2>> }

ListUsersFixtures == { ListText(ps) : ps \in LoggedIn }

\* `loginctl show-user` on those hosts, for the names asked
ShowUserFixtures(names) ==
    { ShowText(ps) : ps \in { q \in LoggedIn : [i \in DOMAIN q |-> q[i].name] = names } }

StubOutputs == { <<"o1">>, <<"o2">> }

\* the text a process can write, by its command line and by how it ended
OutputsFor(args, how) ==
    IF how = "nospawn" THEN { <<>> }
    ELSE IF how = "nonzero" THEN { <<"error: ", JoinWith(args, " ")>> }
    ELSE IF args[1] = "stub" THEN StubOutputs
    ELSE IF args[1] = "docker" /\ args[2] = "inspect"
         THEN { InspectOutput(SubSeq(args, 4, Len(args))) }
    ELSE IF args[1] = "docker" /\ args[2] = "ps" THEN PsOutputs
    ELSE IF args[1] = "loginctl" /\ args[2] = "list-users" THEN ListUsersFixtures
    ELSE IF args[1] = "loginctl" /\ args[2] = "show-user"
         THEN ShowUserFixtures(SubSeq(args, 10, Len(args) - 1))
    ELSE IF Len(args) >= 3 /\ args[1] = "systemctl" /\ args[3] = "is-active" THEN { <<>> }
    ELSE { <<JoinWith(args, " ")>> }

----------------------------------------------------------------------------
(* The pool's workers *)

\* an idle worker takes the oldest queued work item
WorkerStart ==
    /\ queue # <<>>
    /\ Cardinality(Running) < PoolSize
    /\ futs' = [futs EXCEPT ![Head(queue)].st = "running"]
    /\ queue' = Tail(queue)
    /\ UNCHANGED <<mode, taskOf, root, pc, outcome, env0, probe, users, obs>>

\* the process of a running work item ends; run_do sets the future
WorkerFinish ==
    \E i \in Running :
      \E how \in Hows(futs[i].args) :
        \E out \in OutputsFor(futs[i].args, how) :
          /\ (how # "zero" /\ futs[i].by \notin ProbeCids)
                => Cardinality(FailedLeaves) < MaxFailures
          /\ futs' = [futs EXCEPT ![i].st = "done", ![i].res = run_do(how, out),
                                   ![i].stdout = out]
          \* in a status request, note a command that ends while one submitted
          \* before it has not ended
          /\ obs' = IF mode \in {"status", "server"}
                    THEN [obs EXCEPT !.overtaken =
                                 @ \/ \E j \in DOMAIN futs : j < i /\ futs[j].st # "done"]
                    ELSE obs
          /\ UNCHANGED <<mode, queue, taskOf, root, pc, outcome, env0, probe, users>>

----------------------------------------------------------------------------
(* TaskList.add, and a caller that drives one TaskList through add(), run()  *)
(* and result() in any order                                                *)

\* an add() without the membership test: the assignment alone
TaskList_add_nocheck(tasks, name, task) ==
    [res |-> Ok("None"), tasks |-> DictSet(tasks, name, task)]

\* TaskList.add: the exception or None, and self.tasks afterwards
TaskList_add(tasks, name, task) ==
    IF DictHas(tasks, name)
    THEN [res |-> Raise("RuntimeError", "duplicate task name: " \o name), tasks |-> tasks]
    ELSE [res |-> Ok("None"), tasks |-> DictSet(tasks, name, task)]

\* the tasks the caller has at hand
Candidates ==
    { Stub("c1"), Hostname("h1"),
      DockerStatus("d0", <<>>), DockerStatus("d1", <<"c1">>),
      TaskList("lh", <<[name |-> "h", task |-> Hostname("h2")]>>),
      TaskList("lc", <<[name |-> "c", task |-> Stub("c2")]>>) }

ChildNames == {"a", "b"}

RECURSIVE Descendants(_)
\* a task and every task below it
Descendants(t) ==
    IF t.kind = "TaskList"
    THEN {t} \cup UNION { Descendants(t.tasks[i].task) : i \in DOMAIN t.tasks }
    ELSE {t}

\* the tasks whose run() submits a command
Submits(t) ==
    t.kind = "Command" \/ (t.kind = "DockerStatus" /\ t.containers # <<>>)

Executions(cid) == Cardinality({ i \in DOMAIN futs : futs[i].by = cid })

NoObs == [op |-> "none"]
NoProbe == [docker |-> "unset", active |-> "unset", ids |-> <<>>]
NoUsers == [listed |-> <<>>, yielded |-> <<>>]

\* a result() that runs the command again, as now() does
result_effect_rerun(S, t) == IF t.kind = "Command" THEN Command_run(S, t) ELSE S

\* what result() does to the pool and to self.task: nothing
result_effect(S, t) == S

TaskInit ==
    /\ mode = "task"
    /\ futs = <<>> /\ queue = <<>> /\ taskOf = <<>>
    /\ root = TaskList("root", <<>>)
    /\ pc = "building"
    /\ outcome = NoObs
    /\ env0 = [euid |-> 0, uid |-> 0]
    /\ probe = NoProbe
    /\ users = NoUsers
    /\ obs = [last |-> NoObs, ran |-> {}, first |-> <<>>, nrun |-> <<>>]

\* root.add(name, task), while the tree is being built
T_add ==
    /\ mode = "task"
    /\ pc = "building"
    /\ Len(root.tasks) < MaxChildren
    /\ \E name \in ChildNames, task \in Candidates :
         LET r == TaskList_add(root.tasks, name, task)
         IN  /\ root' = [root EXCEPT !.tasks = r.tasks]
             /\ obs' = [obs EXCEPT !.last =
                          [op |-> "add", name |-> name, task |-> task,
                           before |-> root.tasks, res |-> r.res]]
    /\ UNCHANGED <<mode, futs, queue, taskOf, pc, outcome, env0, probe, users>>

\* first[cid] is kept for the future self.task holds: run() replaces the future
ForgetFirst(first, cids) ==
    [c \in DOMAIN first \ cids |-> first[c]]

RECURSIVE RunCalls(_, _)
RECURSIVE RunCallsIn(_, _, _)
\* how many times t.run() calls run() on the task cid
RunCalls(t, cid) ==
    (IF t.cid = cid THEN 1 ELSE 0)
    + (IF t.kind = "TaskList" THEN RunCallsIn(t.tasks, 1, cid) ELSE 0)

RunCallsIn(tasks, i, cid) ==
    IF i > Len(tasks) THEN 0
    ELSE RunCalls(tasks[i].task, cid) + RunCallsIn(tasks, i + 1, cid)

\* the number of run() calls each command has seen, t.run() included
CountRuns(nrun, t) ==
    [c \in DOMAIN nrun \cup { d.cid : d \in { x \in Descendants(t) : Submits(x) } } |->
        (IF c \in DOMAIN nrun THEN nrun[c] ELSE 0) + RunCalls(t, c)]

\* t.run() for the root or any task below it
T_run ==
    /\ mode = "task"
    /\ \E t \in Descendants(root) :
         /\ \A d \in Descendants(t) :
                Submits(d) => Executions(d.cid) + RunCalls(t, d.cid) <= MaxRuns
         /\ LET S == Task_run(PoolState, t)
            IN  /\ futs' = S.futs
                /\ queue' = S.queue
                /\ taskOf' = S.taskOf
         /\ obs' = [last |-> [op |-> "run", target |-> t.cid],
                    ran |-> obs.ran \cup { d.cid : d \in Descendants(t) },
                    first |-> ForgetFirst(obs.first, { d.cid : d \in Descendants(t) }),
                    nrun |-> CountRuns(obs.nrun, t)]
    /\ pc' = "built"
    /\ UNCHANGED <<mode, root, outcome, env0, probe, users>>

\* t.result() for the root or any task below it, once it can return
T_result ==
    /\ mode = "task"
    /\ \E t \in Descendants(root) :
         LET r == Task_result(t)
             S == result_effect(PoolState, t)
         IN  /\ ~r.blocked
             /\ futs' = S.futs
             /\ queue' = S.queue
             /\ taskOf' = S.taskOf
             /\ obs' = [obs EXCEPT
                          !.last = [op |-> "result", target |-> t.cid, res |-> r,
                                    ranBefore |-> t.cid \in obs.ran,
                                    again |-> t.cid \in DOMAIN obs.first],
                          !.first = IF t.cid \in DOMAIN @ \/ t.cid \notin DOMAIN taskOf
                                    THEN @ ELSE FnSet(@, t.cid, r)]
    /\ pc' = "built"
    /\ UNCHANGED <<mode, root, outcome, env0, probe, users>>

TaskNext == T_add \/ T_run \/ T_result \/ WorkerStart \/ WorkerFinish

SpecTask == TaskInit /\ [][TaskNext]_vars

----------------------------------------------------------------------------
(* systemd_users(): the two loginctl calls and their parsing *)

RECURSIVE split_max(_, _, _)
\* str.split(sep, maxsplit): at most maxsplit cuts, empty pieces kept
split_max(text, sep, maxsplit) ==
    IF maxsplit = 0 \/ ~\E i \in DOMAIN text : text[i] = sep
    THEN <<text>>
    ELSE LET i == CHOOSE k \in DOMAIN text :
                     text[k] = sep /\ \A j \in 1..(k - 1) : text[j] # sep
         IN  <<SubSeq(text, 1, i - 1)>>
                 \o split_max(SubSeq(text, i + 1, Len(text)), sep, maxsplit - 1)

Digits == {"0", "1", "2", "3", "4", "5", "6", "7", "8", "9"}

DigitVal(d) ==
    CASE d = "0" -> 0 [] d = "1" -> 1 [] d = "2" -> 2 [] d = "3" -> 3 [] d = "4" -> 4
      [] d = "5" -> 5 [] d = "6" -> 6 [] d = "7" -> 7 [] d = "8" -> 8 [] d = "9" -> 9

RECURSIVE DecimalValue(_)
DecimalValue(ds) ==
    IF ds = <<>> THEN 0
    ELSE 10 * DecimalValue(SubSeq(ds, 1, Len(ds) - 1)) + DigitVal(ds[Len(ds)])

\* int(text): decimal digits, white space around them allowed
int(text) ==
    LET body == strip(text)
    IN  IF body # <<>> /\ \A i \in DOMAIN body : body[i] \in Digits
        THEN Ok(DecimalValue(body))
        ELSE Raise("ValueError", StrOf(text))

RECURSIVE list_users_lines(_, _, _)
\* the loop of list_users over the lines: what it yields, and how it ends
list_users_lines(lines, i, output) ==
    IF i > Len(lines) THEN [yielded |-> <<>>, res |-> Ok("None")]
    ELSE LET info == split_max(lstrip(lines[i]), " ", 2)
         IN  IF Len(info) < 2
             THEN [yielded |-> <<>>,
                   res |-> Raise("RuntimeError",
                                 "invalid loginctl list-users output:\n" \o StrOf(output))]
             ELSE LET rest == list_users_lines(lines, i + 1, output)
                  IN  [yielded |-> <<[uid |-> StrOf(info[1]), name |-> StrOf(info[2])]>>
                                       \o rest.yielded,
                       res |-> rest.res]

\* list_users, given the text of `loginctl list-users --no-legend`
list_users(output) == list_users_lines(splitlines(output), 1, output)

RECURSIVE show_users_groups(_, _, _)
\* the loop of show_users over the groups: what it yields, and how it ends
show_users_groups(groups, i, output) ==
    IF i > Len(groups) THEN [yielded |-> <<>>, res |-> Ok("None")]
    ELSE IF Len(groups[i]) # 3
         THEN [yielded |-> <<>>,
               res |-> Raise("RuntimeError",
                             "invalid loginctl show-user output:\n" \o StrOf(output))]
    ELSE IF ~int(groups[i][1]).ok
         THEN [yielded |-> <<>>, res |-> int(groups[i][1])]
    ELSE LET rest == show_users_groups(groups, i + 1, output)
         IN  [yielded |-> <<[uid |-> int(groups[i][1]).val,
                             name |-> StrOf(groups[i][2]),
                             runtime_dir |-> StrOf(groups[i][3])]>> \o rest.yielded,
              res |-> rest.res]

\* show_users after its call, given the text of `loginctl show-user`
show_users(output) == show_users_groups(split_by(splitlines(output), <<>>), 1, output)

\* a show_users that calls loginctl even without a name to ask for
show_users_returns_always_calls(user_args) == FALSE

\* show_users: `if not user_args: return None`
show_users_returns(user_args) == user_args = <<>>

\* the command line of show_users
show_user_cmd(user_args) ==
    Loginctl("show-user",
             <<"show-user", "-p", "UID", "-p", "Name", "-p", "RuntimePath", "--value">>
                 \o user_args)

list_users_cmd == Loginctl("list-users", <<"list-users", "--no-legend">>)

----------------------------------------------------------------------------
(* The caller's identity *)

\* pwd.getpwall()
passwd ==
    << [uid |-> 0, name |-> "root"],
       [uid |-> 65534, name |-> "nobody"],
       [uid |-> 1000, name |-> "carol"] >>

\* (effective uid, real uid) of the serving process
Callers ==
    { [euid |-> 0, uid |-> 0], [euid |-> 65534, uid |-> 65534], [euid |-> 1000, uid |-> 1000] }

running_as_nobody(euid) ==
    IF \E i \in DOMAIN passwd : passwd[i].name = "nobody"
    THEN LET i == CHOOSE k \in DOMAIN passwd :
                     passwd[k].name = "nobody"
                     /\ \A j \in 1..(k - 1) : passwd[j].name # "nobody"
         IN  passwd[i].uid = euid
    ELSE FALSE

running_as_root(euid) == euid = 0 \/ running_as_nobody(euid)

\* pwd.getpwuid(os.getuid())
get_current_user(uid) == passwd[CHOOSE i \in DOMAIN passwd : passwd[i].uid = uid]

\* the probe of user_instance_active
is_active_cmd(user) ==
    Systemctl_system("is-active",
        <<"is-active", "user@" \o ToString(user.uid) \o ".service", "--quiet">>)

----------------------------------------------------------------------------
(* Request.STATUS: Status() and complete(), one thread                      *)

docker_version_cmd == DockerVersion("DockerVersion")
docker_ps_cmd == DockerPs_quiet("DockerPs", <<"--all">>)

\* an is_daemon_running that lets the exception of now() through
is_daemon_running_raises(r) == IF r.ok THEN Ok(TRUE) ELSE r

\* DockerVersion.is_daemon_running, given how now() ended: any exception is
\* False
is_daemon_running(r) == IF r.ok THEN Ok(TRUE) ELSE Ok(FALSE)

\* DockerPs.get_all_ids, given the text now() returned
get_all_ids(text) == [i \in DOMAIN splitlines(text) |-> StrOf(splitlines(text)[i])]

\* a user_instance_active that lets the exception of now() through
user_instance_active_raises(r) == IF r.ok THEN Ok(TRUE) ELSE r

\* user_instance_active, given how now() ended: an Exception is False
user_instance_active(r) == IF r.ok THEN Ok(TRUE) ELSE Ok(FALSE)

RECURSIVE su_tasks(_, _, _)
\* {user.name: UserStatus.su(user) for user in ...}
su_tasks(yielded, i, tasks) ==
    IF i > Len(yielded) THEN tasks
    ELSE su_tasks(yielded, i + 1,
                  DictSet(tasks, yielded[i].name,
                          UserStatus_su("user." \o yielded[i].name \o "."
                                            \o ToString(yielded[i].uid),
                                        yielded[i])))

\* Response.body_from_json
body_from_json(body) == [dumps |-> body, ensure_ascii |-> FALSE, indent |-> 4]

\* Response(body): the default status
Response(body) == [ok |-> TRUE, status |-> "OK", body |-> body]

\* an exception leaves Request.process; `at` is where it was raised
Raised(r, at) == [ok |-> FALSE, err |-> r.err, msg |-> r.msg, at |-> at]

SystemOf(t) == DictGet(t.tasks, "system")
UserOf(t) == DictGet(t.tasks, "user")

WithSystem(t, tasks) ==
    [t EXCEPT !.tasks = DictSet(@, "system", TaskList("system", tasks))]

WithUser(t, tasks) ==
    [t EXCEPT !.tasks = DictSet(@, "user", TaskList("user", tasks))]

\* c.run() of c.now()
Now(c) ==
    LET S == Command_run(PoolState, c)
    IN  futs' = S.futs /\ queue' = S.queue /\ taskOf' = S.taskOf

StatusInit ==
    /\ mode = "status"
    /\ futs = <<>> /\ queue = <<>> /\ taskOf = <<>>
    /\ root = TaskList("status", <<>>)
    /\ pc = "start"
    /\ outcome = NoObs
    /\ env0 \in Callers
    /\ probe = NoProbe
    /\ users = NoUsers
    /\ obs = [overtaken |-> FALSE]

\* a request is being processed: on its own, or below do_GET
Processing == mode \in {"status", "server"}

\* Request.process: `self is Request.X`
Requested(what) == IF mode = "server" THEN obs.request = what ELSE what = "status"

\* Status.__init__ up to the first wait: Hostname(), InstanceStatus.__init__ of
\* SystemStatus, and the run() of DockerVersion().now()
S_start ==
    /\ Processing /\ pc = "start"
    /\ Requested("status")
    /\ root' = TaskList("status",
                 << [name |-> "hostname", task |-> Hostname("hostname")],
                    [name |-> "system",
                     task |-> InstanceStatus("system", Factory_system)] >>)
    /\ Now(docker_version_cmd)
    /\ pc' = "docker_version"
    /\ UNCHANGED <<mode, outcome, env0, probe, users, obs>>

\* is_daemon_running returns; if True, DockerStatus.__init__ starts `docker ps`
S_docker_version ==
    /\ Processing /\ pc = "docker_version"
    /\ LET r == Command_result(docker_version_cmd)
           d == is_daemon_running(r)
       IN  /\ ~r.blocked
           /\ IF ~d.ok
              THEN /\ pc' = "raised"
                   /\ outcome' = Raised(d, pc)
                   /\ UNCHANGED <<futs, queue, taskOf, probe>>
              ELSE IF d.val
              THEN /\ Now(docker_ps_cmd)
                   /\ pc' = "docker_ps"
                   /\ probe' = [probe EXCEPT !.docker = "yes"]
                   /\ UNCHANGED outcome
              ELSE /\ pc' = "user_init"
                   /\ probe' = [probe EXCEPT !.docker = "no"]
                   /\ UNCHANGED <<futs, queue, taskOf, outcome>>
    /\ UNCHANGED <<mode, root, env0, users, obs>>

\* get_all_ids returns; DockerStatus.__init__ ends and SystemStatus adds it
S_docker_ps ==
    /\ Processing /\ pc = "docker_ps"
    /\ LET r == Command_result(docker_ps_cmd)
       IN  /\ ~r.blocked
           /\ IF ~r.ok
              THEN /\ pc' = "raised"
                   /\ outcome' = Raised(r, pc)
                   /\ UNCHANGED <<root, probe>>
              ELSE LET a == TaskList_add(SystemOf(root).tasks, "docker",
                                         DockerStatus("system.docker", get_all_ids(r.val)))
                   IN  /\ probe' = [probe EXCEPT !.ids = get_all_ids(r.val)]
                       /\ IF a.res.ok
                          THEN /\ root' = WithSystem(root, a.tasks)
                               /\ pc' = "user_init"
                               /\ UNCHANGED outcome
                          ELSE /\ pc' = "raised"
                               /\ outcome' = Raised(a.res, pc)
                               /\ UNCHANGED root
    /\ UNCHANGED <<mode, futs, queue, taskOf, env0, users, obs>>

\* UserStatusList.__init__ up to its first wait
S_user_init ==
    /\ Processing /\ pc = "user_init"
    /\ IF running_as_root(env0.euid)
       THEN Now(list_users_cmd) /\ pc' = "list_users"
       ELSE Now(is_active_cmd(get_current_user(env0.uid))) /\ pc' = "is_active"
    /\ UNCHANGED <<mode, root, outcome, env0, probe, users, obs>>

\* user_instance_active returns; UserStatusList.__init__ and Status.__init__ end
S_is_active ==
    /\ Processing /\ pc = "is_active"
    /\ LET r == Command_result(is_active_cmd(get_current_user(env0.uid)))
           a == user_instance_active(r)
           user == get_current_user(env0.uid)
       IN  /\ ~r.blocked
           /\ IF ~a.ok
              THEN /\ pc' = "raised"
                   /\ outcome' = Raised(a, pc)
                   /\ UNCHANGED <<root, probe>>
              ELSE /\ probe' = [probe EXCEPT !.active = IF a.val THEN "yes" ELSE "no"]
                   /\ root' = WithUser(root,
                                IF a.val
                                THEN <<[name |-> user.name,
                                        task |-> UserStatus("user." \o user.name)]>>
                                ELSE <<>>)
                   /\ pc' = "built"
                   /\ UNCHANGED outcome
    /\ UNCHANGED <<mode, futs, queue, taskOf, env0, users, obs>>

\* list_users is exhausted by show_users, which then starts `loginctl show-user`
S_list_users ==
    /\ Processing /\ pc = "list_users"
    /\ LET r == Command_result(list_users_cmd)
           lu == list_users(r.val)
           user_args == [i \in DOMAIN lu.yielded |-> lu.yielded[i].name]
       IN  /\ ~r.blocked
           /\ IF ~r.ok
              THEN /\ pc' = "raised" /\ outcome' = Raised(r, pc)
                   /\ UNCHANGED <<futs, queue, taskOf, root, users>>
              ELSE IF ~lu.res.ok
              THEN /\ pc' = "raised" /\ outcome' = Raised(lu.res, pc)
                   /\ users' = [users EXCEPT !.listed = lu.yielded]
                   /\ UNCHANGED <<futs, queue, taskOf, root>>
              ELSE IF show_users_returns(user_args)
              THEN /\ pc' = "built"
                   /\ root' = WithUser(root, <<>>)
                   /\ users' = [users EXCEPT !.listed = lu.yielded]
                   /\ UNCHANGED <<futs, queue, taskOf, outcome>>
              ELSE /\ Now(show_user_cmd(user_args))
                   /\ pc' = "show_users"
                   /\ users' = [users EXCEPT !.listed = lu.yielded]
                   /\ UNCHANGED <<root, outcome>>
    /\ UNCHANGED <<mode, env0, probe, obs>>

\* show_users is exhausted by the dict comprehension of UserStatusList.__init__
S_show_users ==
    /\ Processing /\ pc = "show_users"
    /\ LET names == [i \in DOMAIN users.listed |-> users.listed[i].name]
           r == Command_result(show_user_cmd(names))
           su == show_users(r.val)
       IN  /\ ~r.blocked
           /\ IF ~r.ok
              THEN /\ pc' = "raised" /\ outcome' = Raised(r, pc)
                   /\ UNCHANGED <<root, users>>
              ELSE /\ users' = [users EXCEPT !.yielded = su.yielded]
                   /\ IF ~su.res.ok
                      THEN /\ pc' = "raised" /\ outcome' = Raised(su.res, pc)
                           /\ UNCHANGED root
                      ELSE /\ pc' = "built"
                           /\ root' = WithUser(root, su_tasks(su.yielded, 1, <<>>))
                           /\ UNCHANGED outcome
    /\ UNCHANGED <<mode, futs, queue, taskOf, env0, probe, obs>>

\* Task.complete: self.run()
S_run ==
    /\ Processing /\ pc = "built"
    /\ LET S == Task_run(PoolState, root)
       IN  futs' = S.futs /\ queue' = S.queue /\ taskOf' = S.taskOf
    /\ pc' = "running"
    /\ UNCHANGED <<mode, root, outcome, env0, probe, users, obs>>

\* Task.complete: Response(Response.body_from_json(self.result()))
S_result ==
    /\ Processing /\ pc = "running"
    /\ LET r == Task_result(root)
       IN  /\ ~r.blocked
           /\ IF r.ok
              THEN pc' = "done" /\ outcome' = Response(body_from_json(r.val))
              ELSE pc' = "raised" /\ outcome' = Raised(r, pc)
    /\ UNCHANGED <<mode, futs, queue, taskOf, root, env0, probe, users, obs>>

Next ==
    \/ S_start \/ S_docker_version \/ S_docker_ps \/ S_user_init \/ S_is_active
    \/ S_list_users \/ S_show_users \/ S_run \/ S_result
    \/ WorkerStart \/ WorkerFinish

Spec == StatusInit /\ [][Next]_vars

----------------------------------------------------------------------------
(* Properties of the Task protocol (SpecTask) *)

TaskByCid(cid) == CHOOSE t \in Descendants(root) : t.cid = cid

\* C2: once a Command has been run() once and its process has ended, every
\* further result() returns what the first result() returned (the same text,
\* or the same exception), and the command has still been executed once.
C2_ResultIdempotent ==
    (/\ obs.last.op = "result"
     /\ obs.last.again
     /\ obs.nrun[obs.last.target] = 1)
    => /\ obs.last.res = obs.first[obs.last.target]
       /\ Executions(obs.last.target) = 1

C2_Witness ==
    /\ obs.last.op = "result"
    /\ obs.last.again
    /\ obs.nrun[obs.last.target] = 1
    /\ TaskByCid(obs.last.target).kind = "Command"
    /\ obs.last.res.ok

\* C3: add() under a name the TaskList holds raises the duplicate-name error
\* and leaves the children as they were; add() under a new name puts the
\* child after all existing ones.
C3_AddUnique ==
    obs.last.op = "add" =>
        IF DictHas(obs.last.before, obs.last.name)
        THEN /\ ~obs.last.res.ok
             /\ obs.last.res.err = "RuntimeError"
             /\ obs.last.res.msg = "duplicate task name: " \o obs.last.name
             /\ root.tasks = obs.last.before
        ELSE /\ obs.last.res.ok
             /\ root.tasks = Append(obs.last.before,
                                    [name |-> obs.last.name, task |-> obs.last.task])

C3_Witness ==
    /\ obs.last.op = "add"
    /\ DictHas(obs.last.before, obs.last.name)
    /\ Len(obs.last.before) >= 1
    /\ ~obs.last.res.ok

\* C4 as claimed: result() on a task of any kind whose run() has not been
\* called fails.
C4_ResultBeforeRunFails ==
    (obs.last.op = "result" /\ ~obs.last.ranBefore) => ~obs.last.res.ok

\* C4 as the code has it: result() before run() fails (AttributeError) for a
\* Command and for a DockerStatus with containers, and fails for a TaskList
\* with such a task below it; Hostname, a DockerStatus without containers and
\* a TaskList with no command below it return their value without run().
C4_ResultBeforeRunByKind ==
    (obs.last.op = "result" /\ ~obs.last.ranBefore) =>
        LET t == TaskByCid(obs.last.target)
            r == obs.last.res
        IN  /\ Submits(t) => (~r.ok /\ r.err = "AttributeError")
            /\ t.kind = "Hostname" => (r.ok /\ r.val = gethostname)
            /\ (t.kind = "DockerStatus" /\ t.containers = <<>>) => (r.ok /\ r.val = <<>>)
            /\ t.kind = "TaskList" =>
                 /\ (\E d \in Descendants(t) : Submits(d) /\ d.cid \notin DOMAIN taskOf)
                       => ~r.ok
                 /\ (\A d \in Descendants(t) : ~Submits(d)) => r.ok

C4_Witness ==
    /\ obs.last.op = "result"
    /\ ~obs.last.ranBefore
    /\ TaskByCid(obs.last.target).kind = "TaskList"
    /\ \E d \in Descendants(TaskByCid(obs.last.target)) : d.kind = "Command"
    /\ ~obs.last.res.ok

----------------------------------------------------------------------------
(* Properties of the status request (Spec) *)

RKeys(rep) == [i \in DOMAIN rep |-> rep[i].name]
RHas(rep, k) == \E i \in DOMAIN rep : rep[i].name = k
RGet(rep, k) == rep[CHOOSE i \in DOMAIN rep : rep[i].name = k].val

Report == outcome.body.dumps

Privileged == running_as_root(env0.euid)

RaisedAt(at) == pc = "raised" /\ outcome.at = at

FutBy(cid) == futs[taskOf[cid]]

\* C1: once the command of a leaf of the Status tree has exited non-zero,
\* complete() returns no Response; when it ends, it ends with the
\* RuntimeError of run_do whose message carries the text that command wrote.
C1_LeafFailureFailsComplete ==
    FailedLeaves # {} =>
        /\ pc # "done"
        /\ pc \in {"running", "raised"}
        /\ pc = "raised" =>
             /\ outcome.at = "running"
             /\ ~outcome.ok
             /\ "body" \notin DOMAIN outcome
             /\ outcome.err = "RuntimeError"
             /\ \E i \in FailedLeaves :
                  outcome.msg = "Command's output was this:\n" \o StrOf(futs[i].stdout)

C1_Witness ==
    /\ RaisedAt("running")
    /\ "system.failed" \in DOMAIN taskOf
    /\ FutBy("system.failed").st = "done"
    /\ ~FutBy("system.failed").res.ok
    /\ FutBy("system.overview").st = "done"
    /\ FutBy("system.overview").res.ok

HasDuplicateNames(ps) == \E i, j \in DOMAIN ps : i # j /\ ps[i].name = ps[j].name

\* C5: for a privileged caller the `user` mapping of the Report has one key
\* per principal systemd_users() yielded, in that order and under that
\* principal's name, each value holds the four facets, and every command
\* behind them is the su form for that principal.
C5_UserMappingPerPrincipal ==
    (pc = "done" /\ Privileged) =>
        LET rep == RGet(Report, "user")
            ps == users.yielded
            ts == UserOf(root).tasks
        IN  /\ Len(rep) = Len(ps)
            /\ \A i \in DOMAIN ps :
                 /\ rep[i].name = ps[i].name
                 /\ RKeys(rep[i].val) = InstanceFacets
                 /\ \A j \in DOMAIN ts[i].task.tasks :
                      LET c == ts[i].task.tasks[j].task
                      IN  /\ SubSeq(c.args, 1, 2) = <<"su", "-c">>
                          /\ c.args[4] = ps[i].name
                          /\ c.env["XDG_RUNTIME_DIR"] = ps[i].runtime_dir

\* C6: when systemd_users() yields two principals of the same name for a
\* privileged caller, building the `user` TaskList raises the duplicate-name
\* error.
C6_DuplicateNameRejected ==
    (Privileged /\ HasDuplicateNames(users.yielded)) =>
        /\ pc = "raised"
        /\ outcome.err = "RuntimeError"
        /\ \E i \in DOMAIN users.yielded :
             outcome.msg = "duplicate task name: " \o users.yielded[i].name

UserInitDone ==
    \/ pc \in {"built", "running", "done"}
    \/ pc = "raised" /\ outcome.at \in {"is_active", "list_users", "show_users", "running"}

\* C7: for an unprivileged caller loginctl is never run; once
\* UserStatusList.__init__ is over, `user` holds the caller's own UserStatus
\* with direct `--user` commands if the is-active probe exited zero, and is
\* empty if it did not, and the probe's failure has not been raised.
C7_UnprivilegedOwnIdentity ==
    ~Privileged =>
        /\ \A i \in DOMAIN futs : futs[i].args[1] # "loginctl"
        /\ UserInitDone =>
             LET me == get_current_user(env0.uid)
                 ts == UserOf(root).tasks
             IN  /\ pc = "raised" => outcome.at = "running"
                 /\ probe.active = (IF FutBy("is-active").res.ok THEN "yes" ELSE "no")
                 /\ probe.active = "no" => ts = <<>>
                 /\ probe.active = "yes" =>
                      /\ DictKeys(ts) = <<me.name>>
                      /\ DictKeys(ts[1].task.tasks) = InstanceFacets
                      /\ \A j \in DOMAIN ts[1].task.tasks :
                           LET c == ts[1].task.tasks[j].task
                           IN  /\ c.args[1] \in {"systemctl", "journalctl"}
                               /\ c.args[2] = "--user"
                               /\ c.env = make_env
                 /\ pc = "done" => RKeys(RGet(Report, "user")) = DictKeys(ts)

C7_Witness ==
    /\ ~Privileged
    /\ pc = "done"
    /\ probe.active = "no"
    /\ ~FutBy("is-active").res.ok
    /\ RGet(Report, "user") = <<>>

\* C8: `docker` is a child of `system` exactly when `docker version` ran and
\* exited zero; a probe that exits non-zero or cannot be started is answered
\* by False and raises nothing; in a Report `docker` is a key of `system`
\* exactly when the probe succeeded, and of nothing else.
C8_DockerIffProbe ==
    /\ pc = "raised" => outcome.at # "docker_version"
    /\ pc \notin {"start", "docker_version"} =>
         probe.docker = (IF FutBy("DockerVersion").res.ok THEN "yes" ELSE "no")
    /\ (pc # "start" /\ DictHas(SystemOf(root).tasks, "docker")) => probe.docker = "yes"
    /\ pc = "done" =>
         /\ RHas(RGet(Report, "system"), "docker") <=> probe.docker = "yes"
         /\ ~RHas(Report, "docker")
         /\ \A i \in DOMAIN RGet(Report, "user") :
              ~RHas(RGet(Report, "user")[i].val, "docker")

C8_Witness ==
    /\ pc = "done"
    /\ probe.docker = "no"
    /\ FutBy("DockerVersion").res.err = "FileNotFoundError"
    /\ ~RHas(RGet(Report, "system"), "docker")

InspectFutures ==
    { i \in DOMAIN futs : futs[i].args[1] = "docker" /\ futs[i].args[2] = "inspect" }

\* C9: with an empty listing no `docker inspect` is ever submitted and the
\* result of DockerStatus is the empty list; with a non-empty listing run()
\* submits one `docker inspect` whose arguments end with all the listed ids.
C9_InspectOnlyWithContainers ==
    /\ probe.ids = <<>> => InspectFutures = {}
    /\ (pc = "done" /\ probe.docker = "yes" /\ probe.ids = <<>>) =>
         RGet(RGet(Report, "system"), "docker") = <<>>
    /\ (probe.ids # <<>> /\ (pc \in {"running", "done"} \/ RaisedAt("running"))) =>
         /\ Cardinality(InspectFutures) = 1
         /\ \A i \in InspectFutures :
              futs[i].args = <<"docker", "inspect", "--format=" \o FORMAT>> \o probe.ids
    /\ (pc = "done" /\ probe.ids # <<>>) =>
         Len(RGet(RGet(Report, "system"), "docker")) = Len(probe.ids)

C9_Witness ==
    /\ pc = "done"
    /\ probe.docker = "yes"
    /\ probe.ids = <<>>
    /\ RGet(RGet(Report, "system"), "docker") = <<>>

----------------------------------------------------------------------------
(* systemd_users() on its own: the texts of the two loginctl calls are the
   inputs, drawn from the hosts below *)

MaxUsers == 2

Accounts ==
    { [uid |-> <<"7">>, name |-> "a", runtime_dir |-> "/run/user/7"],
      [uid |-> <<"4", "2">>, name |-> "b", runtime_dir |-> "/run/user/42"] }

\* the white space loginctl may put before the uid and between the columns
Pads == { <<>>, <<" ">> }
Separators == { <<" ">>, <<" ", " ">>, <<"\t">> }

\* how much of a row is written: all of it, the uid and the white space
\* after it, or the uid alone
Cuts == {"none", "name", "sep"}

ListRows == [acct : Accounts, pad : Pads, sep : Separators, cut : Cuts]

Hosts == UNION { [1..n -> ListRows] : n \in 0..MaxUsers }

FormatRow(r) ==
    r.pad \o r.acct.uid
          \o (IF r.cut = "sep" THEN <<>> ELSE r.sep)
          \o (IF r.cut = "none" THEN <<r.acct.name>> ELSE <<>>)
          \o <<"\n">>

RECURSIVE FormatRows(_)
FormatRows(rows) ==
    IF rows = <<>> THEN <<>> ELSE FormatRow(Head(rows)) \o FormatRows(Tail(rows))

AccountsOf(rows) == [i \in DOMAIN rows |-> rows[i].acct]

RECURSIVE ShowTextDoubled(_)
\* the blocks with two blank lines between them
ShowTextDoubled(ps) ==
    IF ps = <<>> THEN <<>>
    ELSE IF Len(ps) = 1 THEN ShowBlock(ps[1])
    ELSE ShowBlock(ps[1]) \o <<"\n", "\n">> \o ShowTextDoubled(Tail(ps))

\* what `loginctl show-user` can answer: the blocks of the accounts, or that
\* text cut short of its last line, with a line more, or with a blank line
\* before it, after it, or doubled between two blocks
ShowUserOutputs(rows) ==
    LET text == ShowText(AccountsOf(rows))
    IN  { text,
          SubSeq(text, 1, Len(text) - 2),
          text \o <<"x", "\n">>,
          <<"\n">> \o text,
          text \o <<"\n">>,
          ShowTextDoubled(AccountsOf(rows)) }

ParseInit ==
    /\ mode = "parse"
    /\ futs = <<>> /\ queue = <<>> /\ taskOf = <<>>
    /\ root = TaskList("root", <<>>)
    /\ pc = "list_users"
    /\ outcome = NoObs
    /\ env0 = [euid |-> 0, uid |-> 0]
    /\ probe = NoProbe
    /\ users = NoUsers
    /\ \E rows \in Hosts :
         obs = [host |-> rows, list |-> FormatRows(rows), args |-> <<>>,
                shown |-> FALSE, show |-> <<>>]

\* user_args = [user.name for user in users]: list_users runs to its end,
\* and show_users builds the command line of `loginctl show-user`
P_list_users ==
    /\ mode = "parse" /\ pc = "list_users"
    /\ LET lu == list_users(obs.list)
           user_args == [i \in DOMAIN lu.yielded |-> lu.yielded[i].name]
       IN  /\ users' = [users EXCEPT !.listed = lu.yielded]
           /\ IF ~lu.res.ok
              THEN /\ pc' = "raised" /\ outcome' = Raised(lu.res, pc)
                   /\ UNCHANGED obs
              ELSE IF show_users_returns(user_args)
              THEN pc' = "done" /\ UNCHANGED <<outcome, obs>>
              ELSE /\ pc' = "show_users"
                   /\ obs' = [obs EXCEPT !.args = show_user_cmd(user_args).args]
                   /\ UNCHANGED outcome
    /\ UNCHANGED <<mode, futs, queue, taskOf, root, env0, probe>>

\* the rest of show_users, given what `loginctl show-user` wrote
P_show_users ==
    /\ mode = "parse" /\ pc = "show_users"
    /\ \E output \in ShowUserOutputs(obs.host) :
         LET su == show_users(output)
         IN  /\ obs' = [obs EXCEPT !.shown = TRUE, !.show = output]
             /\ users' = [users EXCEPT !.yielded = su.yielded]
             /\ IF su.res.ok
                THEN pc' = "done" /\ UNCHANGED outcome
                ELSE pc' = "raised" /\ outcome' = Raised(su.res, pc)
    /\ UNCHANGED <<mode, futs, queue, taskOf, root, env0, probe>>

ParseNext == P_list_users \/ P_show_users

SpecParse == ParseInit /\ [][ParseNext]_vars

----------------------------------------------------------------------------
(* Properties of systemd_users() (SpecParse) *)

RECURSIVE WsFields(_)
\* the fields of a line that white space separates
WsFields(text) ==
    LET t == lstrip(text)
    IN  IF t = <<>> THEN <<>>
        ELSE LET n == IF \E k \in DOMAIN t : IsSpace(t[k])
                      THEN CHOOSE k \in DOMAIN t :
                               IsSpace(t[k]) /\ \A j \in 1..(k - 1) : ~IsSpace(t[j])
                      ELSE Len(t) + 1
             IN  <<SubSeq(t, 1, n - 1)>> \o WsFields(SubSeq(t, n, Len(t)))

ShowUserNames == SubSeq(obs.args, 10, Len(obs.args) - 1)

\* C10: for a list-users text of n >= 1 lines "uid name" with white space
\* between the two columns and a show-user text of the n blocks in the same
\* order, systemd_users() raises nothing, asks show-user for the second
\* white-space-separated field of each line, in order, and yields n
\* principals, the i-th one made of the i-th block.
C10_PrincipalsFromListedLines ==
    LET lines == splitlines(obs.list)
        accts == AccountsOf(obs.host)
    IN  (/\ Len(lines) >= 1
         /\ \A i \in DOMAIN obs.host : obs.host[i].cut = "none"
         /\ obs.shown => obs.show = ShowText(accts)) =>
            /\ pc # "raised"
            /\ pc \in {"show_users", "done"} =>
                 ShowUserNames = [i \in DOMAIN lines |-> StrOf(WsFields(lines[i])[2])]
            /\ pc = "done" =>
                 users.yielded =
                     [i \in DOMAIN accts |->
                         [uid |-> DecimalValue(accts[i].uid),
                          name |-> accts[i].name,
                          runtime_dir |-> accts[i].runtime_dir]]

----------------------------------------------------------------------------
(* Properties of systemd_users() inside the status request (Spec) *)

ShowUserFutures ==
    { i \in DOMAIN futs : futs[i].args[1] = "loginctl" /\ futs[i].args[2] = "show-user" }

ListUsersEnded ==
    /\ "list-users" \in DOMAIN taskOf
    /\ pc # "list_users"

\* C11: when `loginctl list-users` succeeded and listed no user,
\* systemd_users() yields nothing, the `user` TaskList is empty, and
\* `loginctl show-user` is never submitted.
C11_NoUsersNoShowUser ==
    (ListUsersEnded /\ FutBy("list-users").res.ok
                    /\ splitlines(FutBy("list-users").stdout) = <<>>) =>
        /\ ShowUserFutures = {}
        /\ users.listed = <<>> /\ users.yielded = <<>>
        /\ ~RaisedAt("list_users") /\ ~RaisedAt("show_users")
        /\ UserOf(root).tasks = <<>>
        /\ pc = "done" => RGet(Report, "user") = <<>>

C11_Witness ==
    /\ pc = "done"
    /\ Privileged
    /\ FutBy("list-users").res.ok
    /\ FutBy("list-users").stdout = <<>>
    /\ ShowUserFutures = {}
    /\ RGet(Report, "user") = <<>>

----------------------------------------------------------------------------
(* Malformed loginctl output (SpecParse) *)

ShowGroups == split_by(splitlines(obs.show), <<>>)

\* the principal a block of three lines stands for
PrincipalOf(group) ==
    [uid |-> DecimalValue(group[1]), name |-> StrOf(group[2]),
     runtime_dir |-> StrOf(group[3])]

\* C12: systemd_users() ends with the RuntimeError that carries the raw
\* output whenever a list-users line has fewer than two white-space-separated
\* columns, and whenever a block of the show-user output has not exactly
\* three lines; what it yielded before was made of well-formed blocks only.
C12_MalformedOutputRaises ==
    LET lines == splitlines(obs.list)
    IN  /\ (pc # "list_users" /\ \E i \in DOMAIN lines : Len(WsFields(lines[i])) < 2) =>
              /\ RaisedAt("list_users")
              /\ outcome.err = "RuntimeError"
              /\ outcome.msg = "invalid loginctl list-users output:\n" \o StrOf(obs.list)
              /\ users.yielded = <<>>
        /\ (obs.shown /\ \E g \in DOMAIN ShowGroups : Len(ShowGroups[g]) # 3) =>
              /\ RaisedAt("show_users")
              /\ outcome.err = "RuntimeError"
              /\ outcome.msg = "invalid loginctl show-user output:\n" \o StrOf(obs.show)
              /\ Len(users.yielded) < Len(ShowGroups)
              /\ \A i \in DOMAIN users.yielded :
                   /\ Len(ShowGroups[i]) = 3
                   /\ users.yielded[i] = PrincipalOf(ShowGroups[i])

----------------------------------------------------------------------------
(* Systemd.su on its own, and the shell that `su -c` hands its string to *)

MaxArgs == 2
MaxWordLen == 2

\* a copy that is the dict it was given
dict_copy_alias(env) == [dict |-> env, shared |-> TRUE]

\* dict.copy(): a new dict of the same items
dict_copy(env) == [dict |-> env, shared |-> FALSE]

\* Systemd.su(user, cmd): the new command, and cmd once the call is over
\* (fix_su_env assigns into the dict it is given)
Systemd_su_call(user, cmd) ==
    LET copy == dict_copy(cmd.env)
        new == Systemd_su(user, [cmd EXCEPT !.env = copy.dict])
    IN  [new |-> new,
         cmd |-> IF copy.shared THEN [cmd EXCEPT !.env = new.env] ELSE cmd]

\* the characters words are spelled with
Chars == {"a", " ", "'", "\""}

\* the characters shlex.quote leaves alone: [\w@%+=:,./-]
SafeChars == {"a"}

RECURSIVE replace_quote(_)
\* s.replace("'", "'\"'\"'")
replace_quote(cs) ==
    IF cs = <<>> THEN <<>>
    ELSE (IF Head(cs) = "'" THEN <<"'", "\"", "'", "\"", "'">> ELSE <<Head(cs)>>)
             \o replace_quote(Tail(cs))

\* a quote that does not escape the single quotes of the word
shlex_quote_chars_naive(cs) == <<"'">> \o cs \o <<"'">>

\* shlex.quote of a word spelled out
shlex_quote_chars(cs) ==
    IF cs = <<>> THEN <<"'", "'">>
    ELSE IF \A i \in DOMAIN cs : cs[i] \in SafeChars THEN cs
    ELSE <<"'">> \o replace_quote(cs) \o <<"'">>

RECURSIVE shlex_join_chars(_)
\* shlex.join of words spelled out
shlex_join_chars(words) ==
    IF words = <<>> THEN <<>>
    ELSE IF Len(words) = 1 THEN shlex_quote_chars(words[1])
    ELSE shlex_quote_chars(words[1]) \o <<" ">> \o shlex_join_chars(Tail(words))

Unterminated == <<"EOF">>

RECURSIVE sh_words(_, _, _, _, _)
\* the words sh makes of a command string: blanks separate words, single and
\* double quotes keep what they enclose
sh_words(cs, i, quoting, word, inword) ==
    IF i > Len(cs)
    THEN IF quoting # "none" THEN <<Unterminated>>
         ELSE IF inword THEN <<word>> ELSE <<>>
    ELSE IF quoting = "single"
         THEN IF cs[i] = "'" THEN sh_words(cs, i + 1, "none", word, TRUE)
              ELSE sh_words(cs, i + 1, "single", word \o <<cs[i]>>, TRUE)
    ELSE IF quoting = "double"
         THEN IF cs[i] = "\"" THEN sh_words(cs, i + 1, "none", word, TRUE)
              ELSE sh_words(cs, i + 1, "double", word \o <<cs[i]>>, TRUE)
    ELSE IF cs[i] = " "
         THEN (IF inword THEN <<word>> ELSE <<>>) \o sh_words(cs, i + 1, "none", <<>>, FALSE)
    ELSE IF cs[i] = "'" THEN sh_words(cs, i + 1, "single", word, TRUE)
    ELSE IF cs[i] = "\"" THEN sh_words(cs, i + 1, "double", word, TRUE)
    ELSE sh_words(cs, i + 1, "none", word \o <<cs[i]>>, TRUE)

sh_split(cs) == sh_words(cs, 1, "none", <<>>, FALSE)

Words == UNION { [1..n -> Chars] : n \in 0..MaxWordLen }

Argvs == UNION { [1..n -> Words] : n \in 0..MaxArgs }

\* the principals handed to Systemd.su
SuUsers ==
    { [uid |-> 1001, name |-> "alice", runtime_dir |-> "/run/user/1001"],
      [uid |-> 1002, name |-> "bob", runtime_dir |-> "/run/user/1002"],
      [uid |-> 1003, name |-> "alice", runtime_dir |-> "/home/alice/run"] }

\* the commands handed to Systemd.su: those of UserStatus, as built or with
\* env changed by their owner
InnerCommands ==
    LET built == { UserStatus("user").tasks[i].task : i \in 1..Len(InstanceFacets) }
    IN  built
          \cup { [c EXCEPT !.env = EnvSet(c.env, "SYSTEMD_COLORS", "yes")] : c \in built }
          \cup { [c EXCEPT !.env = EnvSet(c.env, "SYSTEMD_PAGER", "less")] : c \in built }

SuInit ==
    /\ mode = "su"
    /\ futs = <<>> /\ queue = <<>> /\ taskOf = <<>>
    /\ root = TaskList("root", <<>>)
    /\ pc = "start"
    /\ outcome = NoObs
    /\ env0 = [euid |-> 0, uid |-> 0]
    /\ probe = NoProbe
    /\ users = NoUsers
    /\ obs = NoObs

\* Systemd.su(user, cmd)
Su_wrap ==
    /\ mode = "su" /\ pc = "start"
    /\ \E user \in SuUsers, cmd \in InnerCommands :
         LET r == Systemd_su_call(user, cmd)
         IN  obs' = [op |-> "su", user |-> user, cmd |-> cmd, new |-> r.new,
                     after |-> r.cmd]
    /\ pc' = "wrapped"
    /\ UNCHANGED <<mode, futs, queue, taskOf, root, outcome, env0, probe, users>>

\* shlex.join(cmd.args), for an argv spelled out
Su_join ==
    /\ mode = "su" /\ pc = "start"
    /\ \E argv \in Argvs :
         obs' = [op |-> "join", argv |-> argv, line |-> shlex_join_chars(argv)]
    /\ pc' = "joined"
    /\ UNCHANGED <<mode, futs, queue, taskOf, root, outcome, env0, probe, users>>

\* su hands the string after -c to the shell of the user, which splits it
Sh_split ==
    /\ mode = "su" /\ pc = "joined"
    /\ obs' = [op |-> "split", argv |-> obs.argv, line |-> obs.line,
               words |-> sh_split(obs.line)]
    /\ pc' = "split"
    /\ UNCHANGED <<mode, futs, queue, taskOf, root, outcome, env0, probe, users>>

SuNext == Su_wrap \/ Su_join \/ Sh_split

SpecSu == SuInit /\ [][SuNext]_vars

----------------------------------------------------------------------------
(* Properties of Systemd.su (SpecSu) *)

SuKeys == {"XDG_RUNTIME_DIR", "DBUS_SESSION_BUS_ADDRESS"}

\* C13: for a principal p and a Systemd command c, Systemd.su(p, c) has the
\* argv su, -c, the joined argv of c, p.name; its env is that of c but for
\* XDG_RUNTIME_DIR = p.runtime_dir and DBUS_SESSION_BUS_ADDRESS =
\* unix:path=p.runtime_dir/bus, SYSTEMD_PAGER and SYSTEMD_COLORS being those
\* of c; c has the argv and env it had before the call.
C13_SuArgvAndEnv ==
    pc = "wrapped" =>
        LET p == obs.user
            c == obs.cmd
            new == obs.new
        IN  /\ new.args = <<"su", "-c", JoinWith(c.args, " "), p.name>>
            /\ DOMAIN new.env = DOMAIN c.env \cup SuKeys
            /\ \A k \in DOMAIN c.env \ SuKeys : new.env[k] = c.env[k]
            /\ new.env["XDG_RUNTIME_DIR"] = p.runtime_dir
            /\ new.env["DBUS_SESSION_BUS_ADDRESS"] = "unix:path=" \o p.runtime_dir \o "/bus"
            /\ new.env["SYSTEMD_PAGER"] = c.env["SYSTEMD_PAGER"]
            /\ new.env["SYSTEMD_COLORS"] = c.env["SYSTEMD_COLORS"]
            /\ obs.after.args = c.args
            /\ obs.after.env = c.env

C13_Witness ==
    /\ pc = "wrapped"
    /\ obs.user.runtime_dir = "/run/user/1001"
    /\ obs.cmd.env["SYSTEMD_COLORS"] = "yes"
    /\ obs.cmd.env["XDG_RUNTIME_DIR"] = "/run/user/0"
    /\ obs.new.env["XDG_RUNTIME_DIR"] = "/run/user/1001"
    /\ obs.new.env["DBUS_SESSION_BUS_ADDRESS"] = "unix:path=/run/user/1001/bus"
    /\ obs.new.env["SYSTEMD_COLORS"] = "yes"

\* C14: the shell makes of the string shlex.join built exactly the words of
\* the argv it was built from, as many and in the same order, whatever
\* blanks and quotes they hold and empty words included.
C14_QuotingRoundTrip ==
    pc = "split" => obs.words = obs.argv

C14_Witness ==
    /\ pc = "split"
    /\ obs.argv = << <<"'", " ">>, <<>> >>
    /\ obs.words = obs.argv

----------------------------------------------------------------------------
(* Order of the Report, and the two phases of complete() (Spec) *)

RECURSIVE Mirrors(_, _)
\* v has the shape of the tree below t: a TaskList's names in their order,
\* each with what its child stands for; a command's own output
Mirrors(t, v) ==
    IF t.kind = "TaskList"
    THEN /\ Len(v) = Len(t.tasks)
         /\ \A i \in DOMAIN t.tasks :
              v[i].name = t.tasks[i].name /\ Mirrors(t.tasks[i].task, v[i].val)
    ELSE IF t.kind = "Hostname" THEN v = gethostname
    ELSE IF t.kind = "DockerStatus" THEN Len(v) = Len(t.containers)
    ELSE v = FutBy(t.cid).stdout

\* C15: the Report of a finished request lists hostname, system, user; an
\* instance lists overview, failed, timers, journal, then docker if it has
\* it; every name stands for the result of the child added under it, in
\* whatever order the commands ended.
C15_ReportOrderIsInsertionOrder ==
    pc = "done" =>
        /\ RKeys(Report) = <<"hostname", "system", "user">>
        /\ RKeys(RGet(Report, "system")) =
               InstanceFacets \o (IF probe.docker = "yes" THEN <<"docker">> ELSE <<>>)
        /\ \A i \in DOMAIN RGet(Report, "user") :
               RKeys(RGet(Report, "user")[i].val) = InstanceFacets
        /\ RKeys(RGet(Report, "user")) = DictKeys(UserOf(root).tasks)
        /\ Mirrors(root, Report)

C15_Witness ==
    /\ pc = "done"
    /\ obs.overtaken
    /\ probe.docker = "yes"
    /\ Len(RGet(Report, "user")) = 2
    /\ FutBy("system.overview").stdout = <<"systemctl --system status --full">>
    /\ RGet(RGet(Report, "system"), "overview") = <<"systemctl --system status --full">>

\* the tasks of the tree whose run() submits a command
SubmittingLeaves == { t \in Descendants(root) : Submits(t) }

\* C16: the run() of complete() submits the command of every leaf below the
\* Status tree and returns with all of them still queued, nothing having been
\* waited for: no command submitted before has moved, and result() has not
\* been called.
C16_RunSubmitsWithoutWaiting ==
    [][ (pc = "built" /\ pc' = "running") =>
          /\ \A t \in SubmittingLeaves :
               /\ t.cid \notin DOMAIN taskOf
               /\ t.cid \in DOMAIN taskOf'
               /\ futs'[taskOf'[t.cid]].st = "queued"
               /\ futs'[taskOf'[t.cid]].args = t.args
               /\ taskOf'[t.cid] \in Range(queue')
          /\ Len(futs') = Len(futs) + Cardinality(SubmittingLeaves)
          /\ \A i \in DOMAIN futs : futs'[i] = futs[i]
          /\ outcome' = outcome
      ]_vars

C16_Witness ==
    /\ pc = "running"
    /\ Cardinality(SubmittingLeaves) >= 9
    /\ \A t \in SubmittingLeaves : FutBy(t.cid).st = "queued"

----------------------------------------------------------------------------
(* DockerStatus.result on its own: the text `docker inspect` wrote is the
   input, drawn from the chunks below *)

MaxChunks == 3

\* what can stand before a NUL of the text: the document of a container, a
\* document cut short, one of another shape, or white space only
InspectChunks ==
    { <<"{c1}">>, <<"{c2}">>, <<"{c1">>, <<"{noslash}">>, <<"{noname}">>, <<" ">> }

RECURSIVE InspectText(_)
InspectText(chunks) ==
    IF chunks = <<>> THEN <<>>
    ELSE Head(chunks) \o <<"NUL", "\n">> \o InspectText(Tail(chunks))

InspectTexts ==
    { InspectText(cs) : cs \in UNION { [1..n -> InspectChunks] : n \in 0..MaxChunks } }

InspectInit ==
    /\ mode = "inspect"
    /\ futs = <<>> /\ queue = <<>> /\ taskOf = <<>>
    /\ root = DockerStatus("docker", <<"c1", "c2">>)
    /\ pc = "built"
    /\ outcome = NoObs
    /\ env0 = [euid |-> 0, uid |-> 0]
    /\ probe = NoProbe
    /\ users = NoUsers
    /\ \E text \in InspectTexts : obs = [text |-> text]

\* DockerStatus.run
I_run ==
    /\ mode = "inspect" /\ pc = "built"
    /\ LET S == Task_run(PoolState, root)
       IN  futs' = S.futs /\ queue' = S.queue /\ taskOf' = S.taskOf
    /\ pc' = "running"
    /\ UNCHANGED <<mode, root, outcome, env0, probe, users, obs>>

\* `docker inspect` ends, having written the text
I_finish ==
    /\ mode = "inspect"
    /\ \E i \in Running, how \in {"zero", "nonzero"} :
         futs' = [futs EXCEPT ![i].st = "done", ![i].res = run_do(how, obs.text),
                              ![i].stdout = obs.text]
    /\ UNCHANGED <<mode, queue, taskOf, root, pc, outcome, env0, probe, users, obs>>

\* DockerStatus.result
I_result ==
    /\ mode = "inspect" /\ pc = "running"
    /\ LET r == Task_result(root)
       IN  /\ ~r.blocked
           /\ IF r.ok
              THEN pc' = "done" /\ outcome' = r
              ELSE pc' = "raised" /\ outcome' = Raised(r, pc)
    /\ UNCHANGED <<mode, futs, queue, taskOf, root, env0, probe, users, obs>>

InspectNext == I_run \/ WorkerStart \/ I_finish \/ I_result

SpecInspect == InspectInit /\ [][InspectNext]_vars

----------------------------------------------------------------------------
(* Properties of DockerStatus.result (SpecInspect) *)

\* the chunks json.loads is given
LoadedChunks ==
    LET chunks == split_by(obs.text, "NUL")
    IN  { strip(chunks[i]) : i \in DOMAIN chunks } \ { <<>> }

WellFormedChunks == { <<"{" \o id \o "}">> : id \in ContainerIds }

\* the class of the error of a command that exited non-zero
CommandErrorClass == run_do("nonzero", <<>>).err

\* C17: when `docker inspect` exited zero and a chunk of its output is not a
\* JSON document, or the document has not the shape filter_info expects,
\* DockerStatus.result() raises an error of the class a non-zero exit
\* raises, and returns no list.
C17_MalformedInspectIsCommandError ==
    (pc \in {"done", "raised"} /\ FutBy("docker").res.ok
                               /\ LoadedChunks \ WellFormedChunks # {}) =>
        /\ pc = "raised"
        /\ outcome.err = CommandErrorClass

----------------------------------------------------------------------------
(* RequestHandler.do_GET of server.py around Request.process *)

\* the paths of GET requests: the four requests, and a file of the html
\* directory
Paths == {"/status", "/top", "/reboot", "/poweroff", "/index.html"}

\* Request.from_http_path: Request(path[1:]), ValueError for any other value
from_http_path(path) ==
    CASE path = "/status" -> Ok("status")
      [] path = "/top" -> Ok("top")
      [] path = "/reboot" -> Ok("reboot")
      [] path = "/poweroff" -> Ok("poweroff")
      [] OTHER -> Raise("ValueError", path)

\* what `top -h` writes: with or without the flags E and e
HelpOutputs == { <<"Usage: top -hv|-bcH">>, <<"Usage: top -hv|-bc", "Ee", "H">> }

\* Top.get_command, given the text of `top -h`
Top_get_command(help_output) ==
    <<"top", "-b", "-n", "1", "-w", "512">>
        \o (IF "Ee" \in Range(help_output) THEN <<"-E", "m", "-e", "m">> ELSE <<>>)

Top(args) == Command("top", args)
Reboot == Command("reboot", <<"systemctl", "reboot">>)
Poweroff == Command("poweroff", <<"systemctl", "poweroff">>)

\* the Response of the except branch of do_GET
ErrorResponse(raised) ==
    [ok |-> TRUE, status |-> "INTERNAL_SERVER_ERROR",
     body |-> [format_exc |-> raised.err, msg |-> raised.msg]]

\* a do_GET that answers a failed request with an empty report
do_GET_response_degraded(out) ==
    IF out.ok THEN out ELSE Response(body_from_json(<<>>))

\* the Response do_GET writes, by how request.process() ended
do_GET_response(out) == IF out.ok THEN out ELSE ErrorResponse(out)

ServerInit ==
    /\ mode = "server"
    /\ futs = <<>> /\ queue = <<>> /\ taskOf = <<>>
    /\ root = TaskList("status", <<>>)
    /\ outcome = NoObs
    /\ env0 \in Callers
    /\ probe = NoProbe
    /\ users = NoUsers
    /\ \E path \in Paths, disable_power \in BOOLEAN :
         /\ pc = IF from_http_path(path).ok THEN "start" ELSE "static"
         /\ obs = [overtaken |-> FALSE, path |-> path,
                   request |-> IF from_http_path(path).ok
                               THEN from_http_path(path).val ELSE "none",
                   disable_power |-> disable_power,
                   wire |-> <<>>, http |-> "processing"]

\* except ValueError: return super().do_GET()
H_static ==
    /\ mode = "server" /\ pc = "static" /\ obs.http = "processing"
    /\ obs' = [obs EXCEPT !.http = "static"]
    /\ UNCHANGED <<mode, futs, queue, taskOf, root, pc, outcome, env0, probe, users>>

\* Request.process for TOP: Top(), whose get_command runs `top -h` at once
R_top ==
    /\ mode = "server" /\ pc = "start"
    /\ Requested("top")
    /\ \E how \in {"zero", "nonzero"}, help_output \in HelpOutputs :
         LET r == run_do(how, help_output)
         IN  IF r.ok
             THEN /\ root' = Top(Top_get_command(r.val))
                  /\ pc' = "built"
                  /\ UNCHANGED outcome
             ELSE /\ pc' = "raised" /\ outcome' = Raised(r, pc)
                  /\ UNCHANGED root
    /\ UNCHANGED <<mode, futs, queue, taskOf, env0, probe, users, obs>>

\* Request.process for REBOOT and POWEROFF: Reboot(), Poweroff()
R_power ==
    /\ mode = "server" /\ pc = "start"
    /\ \/ Requested("reboot") /\ root' = Reboot
       \/ Requested("poweroff") /\ root' = Poweroff
    /\ pc' = "built"
    /\ UNCHANGED <<mode, futs, queue, taskOf, outcome, env0, probe, users, obs>>

\* response.write_to_request_handler(self), in the try or in the except
H_respond ==
    /\ mode = "server" /\ pc \in {"done", "raised"} /\ obs.http = "processing"
    /\ obs' = [obs EXCEPT !.wire = Append(@, do_GET_response(outcome)),
                          !.http = "returned"]
    /\ UNCHANGED <<mode, futs, queue, taskOf, root, pc, outcome, env0, probe, users>>

ServerNext == Next \/ H_static \/ R_top \/ R_power \/ H_respond

SpecServer == ServerInit /\ [][ServerNext]_vars

----------------------------------------------------------------------------
(* Properties at the HTTP boundary (SpecServer) *)

\* C18: do_GET writes nothing while the request is processed and, when it
\* returns, has written exactly one Response: status OK with the whole
\* serialized result of a request that ended well, or
\* INTERNAL_SERVER_ERROR with the traceback of one that raised, which holds
\* no part of a report.
C18_OneResponsePerRequest ==
    /\ obs.http # "returned" => obs.wire = <<>>
    /\ obs.http = "returned" =>
         /\ Len(obs.wire) = 1
         /\ pc \in {"done", "raised"}
         /\ pc = "done" =>
              /\ obs.wire[1].status = "OK"
              /\ obs.wire[1].body = outcome.body
              /\ FailedLeaves = {}
              /\ obs.request = "status" =>
                   /\ RKeys(obs.wire[1].body.dumps) = <<"hostname", "system", "user">>
                   /\ Mirrors(root, obs.wire[1].body.dumps)
              /\ obs.request # "status" =>
                   obs.wire[1].body.dumps = FutBy(root.cid).stdout
         /\ pc = "raised" =>
              /\ obs.wire[1].status = "INTERNAL_SERVER_ERROR"
              /\ obs.wire[1].body = [format_exc |-> outcome.err, msg |-> outcome.msg]

C18_Witness ==
    /\ obs.http = "returned"
    /\ obs.request = "status"
    /\ obs.wire[1].status = "INTERNAL_SERVER_ERROR"
    /\ RaisedAt("running")
    /\ FailedLeaves # {}
    /\ FutBy("system.overview").res.ok

PowerArgs == { <<"systemctl", "reboot">>, <<"systemctl", "poweroff">> }

\* C19: when the server was started with --disable-power, no request has
\* `systemctl reboot` or `systemctl poweroff` submitted to the pool.
C19_PowerDisabledNothingSubmitted ==
    obs.disable_power => \A i \in DOMAIN futs : futs[i].args \notin PowerArgs

----------------------------------------------------------------------------
(* No retries (Spec) *)

\* C20: within a request every command has at most one future, which goes
\* from queued to running to done and never back; once done it keeps its
\* result, a failure like a value, so that every later result() gives the
\* same.
C20_NoRetries ==
    /\ [](\A i, j \in DOMAIN futs : futs[i].by = futs[j].by => i = j)
    /\ [](\A i, j \in DOMAIN queue : queue[i] = queue[j] => i = j)
    /\ [][ \A i \in DOMAIN futs :
             /\ i \in DOMAIN futs'
             /\ futs'[i].by = futs[i].by
             /\ futs'[i].args = futs[i].args
             /\ futs[i].st = "done" => futs'[i] = futs[i]
             /\ futs[i].st = "running" => futs'[i].st \in {"running", "done"}
             /\ futs[i].st = "queued" => futs'[i].st \in {"queued", "running"}
             /\ (futs[i].by \in DOMAIN taskOf /\ taskOf[futs[i].by] = i)
                   => taskOf'[futs[i].by] = i
       ]_vars

C20_Witness ==
    /\ RaisedAt("running")
    /\ \E i \in FailedLeaves :
         /\ futs[i].by = "system.failed"
         /\ Executions(futs[i].by) = 1
         /\ Command_result(TaskByCid(futs[i].by)) = futs[i].res
    /\ \A i \in DOMAIN futs : futs[i].st = "done"

----------------------------------------------------------------------------
(* Several requests at once: ThreadingHTTPServer gives each GET a thread of
   its own; the threads share the pool, Top.COMMAND and the members of the
   Request enum *)

MaxRequests == 3

ConcPaths == <<"/top", "/reboot", "/poweroff">>

\* the objects of request i are its own
Cid(i, name) == "r" \o ToString(i) \o "." \o name

NewRequest(path) ==
    [path |-> path, request |-> from_http_path(path).val, pc |-> "start",
     root |-> TaskList("none", <<>>), outcome |-> NoObs,
     wire |-> <<>>, http |-> "processing",
     help |-> <<>>, asked |-> FALSE]

Reqs == obs.reqs

\* external commands being executed: by the workers, and `top -h` by the
\* threads of requests
Executing ==
    Cardinality(Running) + Cardinality({ i \in DOMAIN Reqs : Reqs[i].pc = "top_help" })

ConcInit ==
    /\ mode = "conc"
    /\ futs = <<>> /\ queue = <<>> /\ taskOf = <<>>
    /\ root = TaskList("none", <<>>)
    /\ pc = "serving"
    /\ outcome = NoObs
    /\ env0 = [euid |-> 0, uid |-> 0]
    /\ probe = NoProbe
    /\ users = NoUsers
    \* the threads are alike: the requests are numbered by their kind
    /\ \E n \in 1..MaxRequests :
         \E k \in [1..n -> DOMAIN ConcPaths] :
           /\ \A i \in 1..(n - 1) : k[i] <= k[i + 1]
           /\ obs =
                 [reqs |-> [i \in 1..n |-> NewRequest(ConcPaths[k[i]])],
                  COMMAND |-> <<>>,
                  ARGS |-> [disable_power |-> TRUE],
                  \* the attribute of each member of Request: <<>> while unset
                  disable_power |-> [r \in {"top", "reboot", "poweroff"} |-> <<>>],
                  waited |-> FALSE]

\* what do_GET does once process() has returned or raised: the response is
\* written, in the try or in the except
Finished(req, ok, out) ==
    [req EXCEPT !.pc = IF ok THEN "done" ELSE "raised",
                !.outcome = out,
                !.wire = Append(@, do_GET_response(out)),
                !.http = "returned"]

\* Task.complete up to result(): self.run()
Submitted(i, task) == Task_run(PoolState, [task EXCEPT !.cid = Cid(i, task.cid)])

\* do_GET of /top up to the first wait. Top.get_command finds Top.COMMAND
\* set, and complete() submits that command line; or it starts `top -h`, which
\* run_do runs in the thread of the request
K_top_begin(i) ==
    /\ mode = "conc" /\ i \in DOMAIN Reqs
    /\ Reqs[i].pc = "start" /\ Reqs[i].request = "top"
    /\ IF obs.COMMAND # <<>>
       THEN LET S == Submitted(i, Top(obs.COMMAND))
            IN  /\ futs' = S.futs /\ queue' = S.queue /\ taskOf' = S.taskOf
                /\ obs' = [obs EXCEPT
                      !.disable_power["top"] = <<obs.ARGS.disable_power>>,
                      !.waited = @ \/ Cardinality(Running) = PoolSize,
                      !.reqs[i] = [@ EXCEPT
                          !.pc = "running",
                          !.root = [Top(obs.COMMAND) EXCEPT !.cid = Cid(i, "top")]]]
       ELSE /\ obs' = [obs EXCEPT
                      !.disable_power["top"] = <<obs.ARGS.disable_power>>,
                      !.reqs[i] = [@ EXCEPT !.pc = "top_help"]]
            /\ UNCHANGED <<futs, queue, taskOf>>
    /\ UNCHANGED <<mode, root, pc, outcome, env0, probe, users>>

\* `top -h` ends: get_command sets Top.COMMAND and returns it, or run_do
\* raises and do_GET answers with the traceback
K_top_help(i) ==
    /\ mode = "conc" /\ i \in DOMAIN Reqs
    /\ Reqs[i].pc = "top_help"
    /\ \E how \in {"zero", "nonzero"}, help_output \in HelpOutputs :
         LET r == run_do(how, help_output)
         IN  obs' = IF r.ok
                    THEN [obs EXCEPT
                            !.COMMAND = Top_get_command(r.val),
                            !.reqs[i] = [@ EXCEPT
                                !.pc = "built", !.asked = TRUE, !.help = r.val,
                                !.root = [Top(Top_get_command(r.val)) EXCEPT
                                              !.cid = Cid(i, "top")]]]
                    ELSE [obs EXCEPT
                            !.reqs[i] = Finished([@ EXCEPT !.asked = TRUE],
                                                 FALSE, Raised(r, "start"))]
    /\ UNCHANGED <<mode, futs, queue, taskOf, root, pc, outcome, env0, probe, users>>

\* Task.complete of the Top that get_command has just built: self.run()
K_run(i) ==
    /\ mode = "conc" /\ i \in DOMAIN Reqs
    /\ Reqs[i].pc = "built"
    /\ LET S == Task_run(PoolState, Reqs[i].root)
       IN  futs' = S.futs /\ queue' = S.queue /\ taskOf' = S.taskOf
    /\ obs' = [obs EXCEPT !.reqs[i].pc = "running",
                          !.waited = @ \/ Cardinality(Running) = PoolSize]
    /\ UNCHANGED <<mode, root, pc, outcome, env0, probe, users>>

\* do_GET of /reboot and /poweroff up to result(): Reboot() or Poweroff(),
\* and self.run()
K_power(i) ==
    /\ mode = "conc" /\ i \in DOMAIN Reqs
    /\ Reqs[i].pc = "start" /\ Reqs[i].request \in {"reboot", "poweroff"}
    /\ LET task == IF Reqs[i].request = "reboot" THEN Reboot ELSE Poweroff
           S == Submitted(i, task)
       IN  /\ futs' = S.futs /\ queue' = S.queue /\ taskOf' = S.taskOf
           /\ obs' = [obs EXCEPT
                 !.disable_power[Reqs[i].request] = <<obs.ARGS.disable_power>>,
                 !.waited = @ \/ Cardinality(Running) = PoolSize,
                 !.reqs[i] = [@ EXCEPT
                     !.pc = "running",
                     !.root = [task EXCEPT !.cid = Cid(i, task.cid)]]]
    /\ UNCHANGED <<mode, root, pc, outcome, env0, probe, users>>

\* Task.complete from result() on, and the rest of do_GET
K_result(i) ==
    /\ mode = "conc" /\ i \in DOMAIN Reqs
    /\ Reqs[i].pc = "running"
    /\ LET r == Task_result(Reqs[i].root)
       IN  /\ ~r.blocked
           /\ obs' = [obs EXCEPT !.reqs[i] =
                        IF r.ok
                        THEN Finished(@, TRUE, Response(body_from_json(r.val)))
                        ELSE Finished(@, FALSE, Raised(r, "running"))]
    /\ UNCHANGED <<mode, futs, queue, taskOf, root, pc, outcome, env0, probe, users>>

\* a step of the thread of request i
K_step(i) ==
    \/ K_top_begin(i) \/ K_top_help(i) \/ K_run(i)
    \/ K_power(i) \/ K_result(i)

ConcNext == (\E i \in 1..MaxRequests : K_step(i)) \/ WorkerStart \/ WorkerFinish

SpecConc == ConcInit /\ [][ConcNext]_vars

\* every thread is scheduled, every worker takes work, every command exits
LiveConc ==
    /\ SpecConc
    /\ \A i \in 1..MaxRequests : WF_vars(K_step(i))
    /\ WF_vars(WorkerStart)
    /\ WF_vars(WorkerFinish)

----------------------------------------------------------------------------
(* Properties of SpecConc and LiveConc *)

\* C21: the external commands executing at the same time, over all the
\* requests being served, are never more than the pool has workers: every
\* command is run by a worker, and the commands beyond the pool size wait in
\* the queue.
C21_ExecutingWithinPool == Executing <= PoolSize

\* the requests that have built their Task
Built == { i \in DOMAIN Reqs : Reqs[i].root.kind = "Command" }

\* C22: the requests share the pool and nothing else: each builds a Task tree
\* of its own, and what a request does follows from what its own commands
\* answered, never from a value another request left behind: the command line
\* of a top request is the one the `top -h` of that request leads to.
C22_RequestsShareOnlyThePool ==
    /\ \A i, j \in Built : i # j => Reqs[i].root.cid # Reqs[j].root.cid
    /\ \A i \in Built :
         Reqs[i].request = "top" =>
            /\ Reqs[i].asked
            /\ Reqs[i].root.args = Top_get_command(Reqs[i].help)

AllReturned == \A i \in DOMAIN Reqs : Reqs[i].http = "returned"

=============================================================================
